---- MODULE Spec2Model ----
(***************************************************************************)
(* A model of horriblesubs_batch_downloader/episodes_scraper.py:          *)
(* HorribleSubsEpisodesScraper.  The constructor runs on the coordinating  *)
(* thread; parse_all_in_parallel starts one threading.Thread per page,     *)
(* each running parse_episodes on the shared attributes self.episodes,     *)
(* self.episode_numbers_collected and self.all_episodes_acquired.          *)
(*                                                                         *)
(* Python values are modelled as pairs <<type, payload>>, the payload a    *)
(* sequence of integers: the string "5" is <<"str", <<5>>>>, the integer 5 *)
(* is <<"int", <<5>>>>, the list [1, 2] is <<"list", <<1, 2>>>> and None   *)
(* is <<"None", <<>>>>.  Two values of different types are never equal,    *)
(* as in Python ("5" != 5).                                                *)
(***************************************************************************)
EXTENDS Integers, Sequences, FiniteSets, TLC

\* Episode numbers on the modelled site are 1..MaxEp.
MaxEp == 2
\* The site holds at most MaxReleases release blocks, over its batch
\* listing and the pages of its single-episode listing.
MaxReleases == 2
\* The service holds at most MaxPages pages before the "DONE" body.
MaxPages == 2

Resolutions == {"480p", "1080p"}

PyNone == <<"None", <<>>>>
PyStr(n) == <<"str", <<n>>>>
PyInt(n) == <<"int", <<n>>>>
PyList(s) == <<"list", s>>

(***************************************************************************)
(* The text of a release block's <i> tag.  fmt "single" is                 *)
(* "<title> - <a> [<res>]", fmt "batch" is "<title> (<a>-<b>) [<res>]",    *)
(* fmt "other" is any text neither regex matches.                          *)
(***************************************************************************)
SingleLabels ==
    {[fmt |-> "single", a |-> n, b |-> 0, res |-> r] :
        n \in 1..MaxEp, r \in Resolutions}

BatchLabels ==
    {[fmt |-> "batch", a |-> f, b |-> l, res |-> r] :
        f \in 1..MaxEp, l \in 1..MaxEp, r \in Resolutions}

OtherLabel == [fmt |-> "other", a |-> 0, b |-> 0, res |-> ""]

SeqsUpTo(S, n) == UNION {[1..k -> S] : k \in 0..n}

\* soup.find_all(name='div', attrs={'class': 'release-links'}) of a page
\* of the single-episode listing, in document order.
PageBodies(n) == SeqsUpTo(SingleLabels \cup {OtherLabel}, n)

\* The same for the batch listing.
BatchBodies(n) == SeqsUpTo(BatchLabels \cup {OtherLabel}, n)

\* What get_html returns for a paginated fetch: the text "DONE" or a page.
Done == [body |-> "DONE", divs |-> <<>>]
Html(divs) == [body |-> "html", divs |-> divs]

\* The constructor's arguments show_id and show_url, as <<type, text>>.
NoArg == <<"NoneType", "">>
ShowIdArgs ==
    {NoArg, <<"int", "731">>, <<"str", "731">>, <<"str", "91-days">>,
     <<"float", "7.31">>}
ShowUrlArgs == {NoArg, <<"str", "http://horriblesubs.info/shows/91-days">>}

\* The show page either holds "var hs_showid = <digits>" or does not.
ShowPages == {[marker |-> TRUE], [marker |-> FALSE]}

(***************************************************************************)
(* Pure helpers.                                                           *)
(***************************************************************************)

\* Python truthiness of a constructor argument: None and "" are falsy.
Truthy(arg) == arg[1] # "NoneType" /\ arg[2] # ""

\* isinstance(show_id, int)
IsInstanceInt(arg) == arg[1] = "int"

\* Whether the value has a method isdigit: str has, int has not.
HasIsdigit(arg) == arg[1] = "str"

\* str.isdigit() on the texts of ShowIdArgs.
Isdigit(arg) == arg[2] \in {"731"}

\* re.match(self.episode_data_regex, text): r".* - ([.\da-zA-Z]*) \[(\d*p)\]"
EpisodeDataMatch(label) ==
    [matched |-> label.fmt = "single", g1 |-> PyStr(label.a), g2 |-> label.res]

\* re.match(self.batch_episodes_data_regex, text):
\* r".* \((\d*)-(\d*)\) \[(\d*p)\]"
BatchEpisodesDataMatch(label) ==
    [matched |-> label.fmt = "batch", g1 |-> PyStr(label.a),
     g2 |-> PyStr(label.b), g3 |-> label.res]

\* int(s) of a numeral string: the same digits, as an integer.
IntOf(s) == <<"int", s[2]>>

\* list(range(first, last + 1)) of two integers.
RangeList(first, last) ==
    LET f == first[2][1]
        l == last[2][1]
    IN  PyList(IF l >= f THEN [k \in 1..(l - f + 1) |-> f + k - 1] ELSE <<>>)

\* set(range(1, n + 1)) of an integer n.
RangeSet(n) == {PyInt(k) : k \in 1..n[2][1]}

\* reversed(all_episodes_divs)
Reversed(s) == [k \in 1..Len(s) |-> s[Len(s) + 1 - k]]

\* magnet_tag.a.attrs['href'] of a release block: one URI per release.
MagnetUrl(label) == <<"magnet", label.a, label.b, label.res>>

\* Python truthiness of the episode_range argument: None and [] are falsy.
RangeTruthy(episode_range) ==
    episode_range[1] = "list" /\ episode_range[2] # <<>>

\* A variant of AddEpisodeAppend: the entry is put at the head of the
\* list.
AddEpisodeInsertFirst(eps, episode_number, episode_range, video_resolution, magnet_url) ==
    <<[episode_number |-> IF RangeTruthy(episode_range)
                          THEN episode_range ELSE episode_number,
       video_resolution |-> video_resolution,
       magnet_url |-> magnet_url]>> \o eps

\* _add_episode, first statement: self.episodes.append({...}).
AddEpisodeAppend(eps, episode_number, episode_range, video_resolution, magnet_url) ==
    Append(eps,
           [episode_number |-> IF RangeTruthy(episode_range)
                               THEN episode_range ELSE episode_number,
            video_resolution |-> video_resolution,
            magnet_url |-> magnet_url])

\* A variant of AddEpisodeCollect: the number of a single episode is not
\* recorded.
AddEpisodeCollectRangesOnly(coll, episode_number, episode_range) ==
    IF RangeTruthy(episode_range)
    THEN coll \cup {PyInt(episode_range[2][k]) :
                        k \in 1..Len(episode_range[2])}
    ELSE coll

\* A variant of AddEpisodeCollect: the set is replaced by the numbers of
\* the new entry instead of growing by them.
AddEpisodeCollectOverwrite(coll, episode_number, episode_range) ==
    IF RangeTruthy(episode_range)
    THEN {PyInt(episode_range[2][k]) : k \in 1..Len(episode_range[2])}
    ELSE {episode_number}

\* _add_episode, second statement: update of self.episode_numbers_collected.
AddEpisodeCollect(coll, episode_number, episode_range) ==
    IF RangeTruthy(episode_range)
    THEN coll \cup {PyInt(episode_range[2][k]) :
                        k \in 1..Len(episode_range[2])}
    ELSE coll \cup {episode_number}

\* The "skips lower resolutions" test of parse_batch_episodes.
BatchAlreadyAdded(eps, episode_range) ==
    \E j \in 1..Len(eps) : eps[j].episode_number = episode_range

(***************************************************************************)
(* parse_batch_episodes runs on the constructor's thread before any parse  *)
(* thread exists: the loop over the reversed blocks, from block i on.      *)
(* raised is TRUE when a label failed to match (RegexFailedToMatch).       *)
(***************************************************************************)
RECURSIVE ParseBatchLoop(_, _, _, _)
ParseBatchLoop(divs, i, eps, coll) ==
    IF i > Len(divs)
    THEN [raised |-> FALSE, episodes |-> eps, collected |-> coll]
    ELSE LET m == BatchEpisodesDataMatch(divs[i])
             episode_range == RangeList(IntOf(m.g1), IntOf(m.g2))
         IN  IF ~m.matched
             THEN [raised |-> TRUE, episodes |-> eps, collected |-> coll]
             ELSE IF BatchAlreadyAdded(eps, episode_range)
             THEN ParseBatchLoop(divs, i + 1, eps, coll)
             ELSE ParseBatchLoop(
                      divs, i + 1,
                      AddEpisodeAppend(eps, PyNone, episode_range, m.g3,
                                       MagnetUrl(divs[i])),
                      AddEpisodeCollect(coll, PyNone, episode_range))

ParseBatchEpisodes(html, eps, coll) ==
    ParseBatchLoop(Reversed(html), 1, eps, coll)

(***************************************************************************)
(* parse_episodes run from its first statement to its last with no other   *)
(* thread in between: the loop over what is left of the reversed blocks.   *)
(* When a label fails to match the call ends there, by the exception.      *)
(***************************************************************************)
RECURSIVE ParseEpisodesLoop(_, _, _)
ParseEpisodesLoop(divs, eps, coll) ==
    IF divs = <<>>
    THEN [episodes |-> eps, collected |-> coll]
    ELSE LET m == EpisodeDataMatch(Head(divs))
         IN  IF ~m.matched
             THEN [episodes |-> eps, collected |-> coll]
             ELSE IF m.g1 \in coll
             THEN ParseEpisodesLoop(Tail(divs), eps, coll)
             ELSE ParseEpisodesLoop(
                      Tail(divs),
                      AddEpisodeAppend(eps, m.g1, PyNone, m.g2,
                                       MagnetUrl(Head(divs))),
                      AddEpisodeCollect(coll, m.g1, PyNone))

\* parse_episodes called on each page of a sequence, one call after the
\* other, from page i on.
RECURSIVE ParseOneAfterAnother(_, _, _, _)
ParseOneAfterAnother(pages, i, eps, coll) ==
    IF i > Len(pages)
    THEN [episodes |-> eps, collected |-> coll]
    ELSE LET r == ParseEpisodesLoop(Reversed(pages[i]), eps, coll)
         IN  ParseOneAfterAnother(pages, i + 1, r.episodes, r.collected)

\* get_most_recent_episode_number on the unpaginated listing: soup.find
\* takes the first release block.
GetMostRecentEpisodeNumber(html) ==
    IF Len(html) = 0
    THEN [exc |-> "HorribleSubsException", value |-> PyNone]
    ELSE LET regex_match == EpisodeDataMatch(html[1])
         IN  IF ~regex_match.matched
             THEN [exc |-> "RegexFailedToMatch", value |-> PyNone]
             ELSE [exc |-> "", value |-> regex_match.g1]

\* Whether "except HorribleSubsException" catches the exception.
CaughtAsHorribleSubsException(exc) == exc = "HorribleSubsException"

\* A variant of AvailableTruthy: the constructor calls
\* parse_all_in_parallel without the test of self.episodes_available.
AvailableTruthyUntested(available) == TRUE

\* The test "if self.episodes_available:": None and set() are falsy.
AvailableTruthy(available) == available.known /\ available.set # {}

\* self.episode_numbers_collected == self.episodes_available
CollectedEqualsAvailable(coll, available) ==
    available.known /\ coll = available.set

\* A variant of LoopCondition: the loop runs until "DONE" alone.
LoopConditionUntilDoneOnly(html, acquired) == html # Done

\* A variant of LoopCondition: the loop never looks at the body fetched.
LoopConditionFlagOnly(html, acquired) == ~acquired

\* The while condition of parse_all_in_parallel.
LoopCondition(html, acquired) == html # Done /\ ~acquired

(***************************************************************************)
(* State.                                                                  *)
(***************************************************************************)
VARIABLES
    pc,                         \* where the constructor's thread is
    err,                        \* the exception the constructor raised, or ""
    most_recent_exc,            \* what get_most_recent_episode_number
                                \* raised, "" when it returned
    arg_show_id,                \* the constructor's argument show_id
    arg_show_url,               \* the constructor's argument show_url
    show_id,                    \* self.show_id
    episodes_available,         \* self.episodes_available
    all_episodes_acquired,      \* self.all_episodes_acquired
    threads,                    \* self.threads, with each thread's state
    episodes,                   \* self.episodes
    episode_numbers_collected,  \* self.episode_numbers_collected
    episodes_page_number,       \* self.episodes_page_number
    next_page_html,             \* parse_all_in_parallel's local variable
    fetches,                    \* every url given to get_html, in order
    site_releases,              \* release blocks the site has yet to serve
    platform,                   \* sys.platform, as download() reads it
    download_i,                 \* entries download()'s for loop has taken
    opened,                     \* the magnet urls handed to the OS, in order
    parse_calls                 \* the blocks of each page or listing given
                                \* to a parser called on its own, in order

vars ==
    <<pc, err, most_recent_exc, arg_show_id, arg_show_url, show_id,
      episodes_available,
      all_episodes_acquired, threads, episodes, episode_numbers_collected,
      episodes_page_number, next_page_html, fetches, site_releases,
      platform, download_i, opened, parse_calls>>

\* What download() owns.
download_vars == <<platform, download_i, opened>>

\* self.episodes_available = None
Unknown == [known |-> FALSE, set |-> {}]

\* A variant of EpisodesUrl: the listing of single episodes is asked for
\* whatever the show_type.
EpisodesUrlShowOnly(show_type) == <<"show", -1>>

\* A url: the show page, or the listing api with its type and nextid
\* (-1 when the url has no nextid).
ShowPageUrl == <<"show_url", -1>>
EpisodesUrl(show_type) == <<show_type, -1>>
EpisodesPageUrl(show_type, page_number) == <<show_type, page_number>>

Init ==
    /\ pc = "INIT"
    /\ err = ""
    /\ most_recent_exc = ""
    /\ arg_show_id \in ShowIdArgs
    /\ arg_show_url \in ShowUrlArgs
    /\ show_id = NoArg
    /\ episodes_available = Unknown
    /\ all_episodes_acquired = FALSE
    /\ threads = <<>>
    /\ episodes = <<>>
    /\ episode_numbers_collected = {}
    /\ episodes_page_number = 0
    /\ next_page_html = Done
    /\ fetches = <<>>
    /\ site_releases = MaxReleases
    /\ platform = ""
    /\ download_i = 0
    /\ opened = <<>>
    /\ parse_calls = <<>>

\* The constructor raises exc: no scraper object is returned.
Raise(exc) == pc' = "ERROR" /\ err' = exc

(***************************************************************************)
(* __init__, lines 35-46: the check of the arguments.                      *)
(***************************************************************************)
\* A variant of ValidateOutcome: a show_url is followed whenever one is
\* given, without "and not show_id".
ValidateOutcomeUrlFirst(id, url) ==
    IF ~Truthy(id) /\ ~Truthy(url) THEN "ValueError"
    ELSE IF Truthy(url) THEN "get_show_id_from_url"
    ELSE IF ~IsInstanceInt(id) THEN "ValueError"
    ELSE IF ~HasIsdigit(id) THEN "AttributeError"
    ELSE IF ~Isdigit(id) THEN "ValueError"
    ELSE "show_id"

\* Lines 36-46: what the check of the arguments leads to.
ValidateOutcome(id, url) ==
    IF ~Truthy(id) /\ ~Truthy(url) THEN "ValueError"
    ELSE IF Truthy(url) /\ ~Truthy(id) THEN "get_show_id_from_url"
    ELSE IF ~IsInstanceInt(id) THEN "ValueError"
    ELSE IF ~HasIsdigit(id) THEN "AttributeError"
    ELSE IF ~Isdigit(id) THEN "ValueError"
    ELSE "show_id"

Validate ==
    /\ pc = "INIT"
    /\ LET outcome == ValidateOutcome(arg_show_id, arg_show_url)
       IN  CASE outcome = "get_show_id_from_url" ->
                    pc' = "RESOLVING_ID" /\ UNCHANGED <<err, show_id>>
             [] outcome = "show_id" ->
                    /\ pc' = "RESOLVING_COUNT"
                    /\ show_id' = arg_show_id
                    /\ UNCHANGED err
             [] OTHER -> Raise(outcome) /\ UNCHANGED show_id
    /\ UNCHANGED <<most_recent_exc, arg_show_id, arg_show_url,
                   episodes_available,
                   all_episodes_acquired, threads, episodes,
                   episode_numbers_collected, episodes_page_number,
                   next_page_html, fetches,
                   site_releases, download_vars,
                   parse_calls>>

(***************************************************************************)
(* get_show_id_from_url, called from line 40.                              *)
(***************************************************************************)
GetShowIdFromUrl ==
    /\ pc = "RESOLVING_ID"
    /\ fetches' = Append(fetches, ShowPageUrl)
    /\ \E html \in ShowPages :
           IF html.marker
           THEN /\ show_id' = <<"str", "731">>
                /\ pc' = "RESOLVING_COUNT"
                /\ UNCHANGED err
           ELSE Raise("RegexFailedToMatch") /\ UNCHANGED show_id
    /\ UNCHANGED <<most_recent_exc, arg_show_id, arg_show_url,
                   episodes_available,
                   all_episodes_acquired, threads, episodes,
                   episode_numbers_collected, episodes_page_number,
                   next_page_html, site_releases, download_vars,
                   parse_calls>>

(***************************************************************************)
(* __init__, lines 50-82: the most recent episode number and the shared    *)
(* attributes.                                                             *)
(***************************************************************************)
ResolveCount ==
    /\ pc = "RESOLVING_COUNT"
    /\ fetches' = Append(fetches, EpisodesUrl("show"))
    /\ \E html \in PageBodies(1) :
           LET r == GetMostRecentEpisodeNumber(html)
           IN  /\ most_recent_exc' = r.exc
               /\ IF r.exc = ""
                  THEN /\ episodes_available' =
                              [known |-> TRUE,
                               set |-> RangeSet(IntOf(r.value))]
                       /\ pc' = "BATCH_PHASE"
                       /\ UNCHANGED err
                  ELSE IF CaughtAsHorribleSubsException(r.exc)
                  THEN /\ episodes_available' = Unknown
                       /\ pc' = "BATCH_PHASE"
                       /\ UNCHANGED err
                  ELSE Raise(r.exc) /\ UNCHANGED episodes_available
    /\ all_episodes_acquired' = FALSE
    /\ threads' = <<>>
    /\ episodes' = <<>>
    /\ episode_numbers_collected' = {}
    /\ episodes_page_number' = 0
    /\ UNCHANGED <<arg_show_id, arg_show_url, show_id, next_page_html,
                   site_releases, download_vars,
                   parse_calls>>

(***************************************************************************)
(* __init__, lines 84-91: the batch listing is fetched and parsed on the   *)
(* constructor's thread, then the test of self.episodes_available.         *)
(***************************************************************************)
BatchPhase ==
    /\ pc = "BATCH_PHASE"
    /\ fetches' = Append(fetches, EpisodesUrl("batch"))
    /\ \E html \in BatchBodies(site_releases) :
           LET r == ParseBatchEpisodes(html, episodes,
                                       episode_numbers_collected)
           IN  /\ site_releases' = site_releases - Len(html)
               /\ episodes' = r.episodes
               /\ episode_numbers_collected' = r.collected
               /\ IF r.raised
                  THEN Raise("RegexFailedToMatch")
                  ELSE /\ pc' = IF AvailableTruthy(episodes_available)
                                THEN "PAGINATION_PHASE" ELSE "DONE"
                       /\ UNCHANGED err
    /\ UNCHANGED <<most_recent_exc, arg_show_id, arg_show_url, show_id,
                   episodes_available,
                   all_episodes_acquired, threads, episodes_page_number,
                   next_page_html, download_vars,
                   parse_calls>>

(***************************************************************************)
(* _get_next_page_html: the body the service returns for the page; past    *)
(* its last page it returns "DONE".                                        *)
(***************************************************************************)
PageResponses(page_number) ==
    IF page_number >= MaxPages THEN {Done}
    ELSE {Done} \cup {Html(divs) : divs \in PageBodies(site_releases)}

\* A variant of GetNextPageHtml: the page number is incremented before
\* every fetch, the first too.
GetNextPageHtmlAlwaysIncrement(increment_page_number) ==
    LET page_number == episodes_page_number + 1
    IN  /\ episodes_page_number' = page_number
        /\ fetches' = Append(fetches, EpisodesPageUrl("show", page_number))
        /\ next_page_html' \in PageResponses(page_number)
        /\ site_releases' = site_releases - Len(next_page_html'.divs)

GetNextPageHtml(increment_page_number) ==
    LET page_number == IF increment_page_number
                       THEN episodes_page_number + 1
                       ELSE episodes_page_number
    IN  /\ episodes_page_number' = page_number
        /\ fetches' = Append(fetches, EpisodesPageUrl("show", page_number))
        /\ next_page_html' \in PageResponses(page_number)
        /\ site_releases' = site_releases - Len(next_page_html'.divs)

\* parse_all_in_parallel, line 118.
FirstPage ==
    /\ pc = "PAGINATION_PHASE"
    /\ GetNextPageHtml(FALSE)
    /\ pc' = "LOOP_TEST"
    /\ UNCHANGED <<err, most_recent_exc, arg_show_id, arg_show_url, show_id,
                   episodes_available, all_episodes_acquired, threads,
                   episodes, episode_numbers_collected, download_vars,
                   parse_calls>>

\* A thread as threading.Thread(target=self.parse_episodes, args=(html,))
\* starts it, named after the page number: divs is what the iterator
\* reversed(all_episodes_divs) has still to yield, the block in hand first.
NewThread(page_number, html) ==
    [name |-> page_number, divs |-> Reversed(html.divs), pc |-> "iter"]

\* parse_all_in_parallel, lines 119-127: the loop test and, when it holds,
\* the loop body: the page in hand goes to a new thread and the next page
\* is fetched.  The body reads and writes nothing the threads touch, so
\* it is one step with the test that lets it run.
LoopTest ==
    /\ pc = "LOOP_TEST"
    /\ IF LoopCondition(next_page_html, all_episodes_acquired)
       THEN /\ threads' = Append(threads,
                                 NewThread(episodes_page_number,
                                           next_page_html))
            /\ GetNextPageHtml(TRUE)
            /\ pc' = "LOOP_TEST"
       ELSE /\ pc' = "DONE"
            /\ UNCHANGED <<threads, episodes_page_number, next_page_html,
                           fetches, site_releases>>
    /\ UNCHANGED <<err, most_recent_exc, arg_show_id, arg_show_url, show_id,
                   episodes_available, all_episodes_acquired, episodes,
                   episode_numbers_collected, download_vars,
                   parse_calls>>

(***************************************************************************)
(* parse_episodes, run by thread t.  The threads share the interpreter:    *)
(* one thread may be suspended between any two of its reads and writes of  *)
(* the shared attributes, and the code takes no lock.                      *)
(***************************************************************************)
SetThread(t, th) == threads' = [threads EXCEPT ![t] = th]

\* Lines 154-169, or line 180 once the loop is over: the next block's label
\* is matched and its number looked up in episode_numbers_collected; after
\* the last block the collected set is compared with episodes_available.
\* RegexFailedToMatch is raised in the thread: it ends the thread (its
\* frame and iterator with it) and reaches no other thread.
ParseEpisodesIter(t) ==
    LET th == threads[t]
        m == EpisodeDataMatch(Head(th.divs))
    IN  /\ th.pc = "iter"
        /\ IF th.divs = <<>>
           THEN SetThread(t, [th EXCEPT !.pc =
                    IF CollectedEqualsAvailable(episode_numbers_collected,
                                                episodes_available)
                    THEN "set_flag" ELSE "finished"])
           ELSE IF ~m.matched
           THEN SetThread(t, [th EXCEPT !.pc = "raised", !.divs = <<>>])
           ELSE IF m.g1 \in episode_numbers_collected
           THEN SetThread(t, [th EXCEPT !.divs = Tail(th.divs)])
           ELSE SetThread(t, [th EXCEPT !.pc = "append"])
        /\ UNCHANGED <<pc, err, most_recent_exc, arg_show_id,
                       arg_show_url, show_id,
                       episodes_available, all_episodes_acquired, episodes,
                       episode_numbers_collected, episodes_page_number,
                       next_page_html, fetches,
                   site_releases, download_vars,
                   parse_calls>>

\* Lines 171-178 and 234-239: _add_episode appends the entry.
ParseEpisodesAppend(t) ==
    LET th == threads[t]
        m == EpisodeDataMatch(Head(th.divs))
    IN  /\ th.pc = "append"
        /\ episodes' = AddEpisodeAppend(episodes, m.g1, PyNone, m.g2,
                                        MagnetUrl(Head(th.divs)))
        /\ SetThread(t, [th EXCEPT !.pc = "collect"])
        /\ UNCHANGED <<pc, err, most_recent_exc, arg_show_id,
                       arg_show_url, show_id,
                       episodes_available, all_episodes_acquired,
                       episode_numbers_collected, episodes_page_number,
                       next_page_html, fetches,
                   site_releases, download_vars,
                   parse_calls>>

\* Lines 241-244: _add_episode records the number.
ParseEpisodesCollect(t) ==
    LET th == threads[t]
        m == EpisodeDataMatch(Head(th.divs))
    IN  /\ th.pc = "collect"
        /\ episode_numbers_collected' =
               AddEpisodeCollect(episode_numbers_collected, m.g1, PyNone)
        /\ SetThread(t, [th EXCEPT !.pc = "iter",
                                        !.divs = Tail(th.divs)])
        /\ UNCHANGED <<pc, err, most_recent_exc, arg_show_id,
                       arg_show_url, show_id,
                       episodes_available, all_episodes_acquired, episodes,
                       episodes_page_number, next_page_html, fetches,
                   site_releases, download_vars,
                   parse_calls>>

\* Line 181.
ParseEpisodesSetFlag(t) ==
    LET th == threads[t]
    IN  /\ th.pc = "set_flag"
        /\ all_episodes_acquired' = TRUE
        /\ SetThread(t, [th EXCEPT !.pc = "finished"])
        /\ UNCHANGED <<pc, err, most_recent_exc, arg_show_id,
                       arg_show_url, show_id,
                       episodes_available, episodes,
                       episode_numbers_collected, episodes_page_number,
                       next_page_html, fetches,
                   site_releases, download_vars,
                   parse_calls>>

\* Any step of thread t.
ParseEpisodes(t) ==
    \/ ParseEpisodesIter(t)
    \/ ParseEpisodesAppend(t)
    \/ ParseEpisodesCollect(t)
    \/ ParseEpisodesSetFlag(t)

(***************************************************************************)
(* download(), lines 265-272, called on the scraper the constructor        *)
(* returned.  The for loop reads self.episodes by index, entry by entry.   *)
(* os.startfile raises OSError when the open fails; subprocess.call        *)
(* returns the opener's exit status, which the code drops, and raises      *)
(* OSError (FileNotFoundError) when the opener is not installed.           *)
(***************************************************************************)
\* How an open ends: done, refused by the opener, or the opener is absent.
OpenOutcomes == {"ok", "failed", "no_opener"}

\* Whether the call of line 269 or 272 raises.
OpenRaises(p, outcome) ==
    IF p = "win32" \/ p = "cygwin"
    THEN outcome # "ok"
    ELSE outcome = "no_opener"

Platforms == {"win32", "cygwin", "darwin", "linux"}

DownloadStart ==
    /\ pc = "DONE"
    /\ pc' = "DOWNLOAD"
    /\ platform' \in Platforms
    /\ UNCHANGED <<err, most_recent_exc, arg_show_id, arg_show_url, show_id,
                   episodes_available, all_episodes_acquired, threads,
                   episodes, episode_numbers_collected,
                   episodes_page_number, next_page_html, fetches,
                   site_releases, download_i, opened, parse_calls>>

DownloadStep ==
    /\ pc = "DOWNLOAD"
    /\ IF download_i < Len(episodes)
       THEN /\ download_i' = download_i + 1
            /\ opened' = Append(opened, episodes[download_i + 1].magnet_url)
            /\ \E outcome \in OpenOutcomes :
                   IF OpenRaises(platform, outcome)
                   THEN pc' = "DOWNLOAD_RAISED" /\ err' = "OSError"
                   ELSE UNCHANGED <<pc, err>>
       ELSE /\ pc' = "DOWNLOADED"
            /\ UNCHANGED <<err, download_i, opened>>
    /\ UNCHANGED <<most_recent_exc, arg_show_id, arg_show_url, show_id,
                   episodes_available,
                   all_episodes_acquired, threads, episodes,
                   episode_numbers_collected, episodes_page_number,
                   next_page_html, fetches, site_releases, platform,
                   parse_calls>>

Next ==
    \/ Validate
    \/ GetShowIdFromUrl
    \/ ResolveCount
    \/ BatchPhase
    \/ FirstPage
    \/ LoopTest
    \/ \E t \in 1..Len(threads) : ParseEpisodesIter(t)
    \/ \E t \in 1..Len(threads) : ParseEpisodesAppend(t)
    \/ \E t \in 1..Len(threads) : ParseEpisodesCollect(t)
    \/ \E t \in 1..Len(threads) : ParseEpisodesSetFlag(t)

\* The construction of a scraper, with the threads it starts.
Spec == Init /\ [][Next]_vars

\* The constructor's thread is scheduled and get_html returns: while it
\* is in parse_all_in_parallel its next step is eventually taken.  Nothing
\* is assumed of the parse threads.
SpecFair == Spec /\ WF_vars(FirstPage) /\ WF_vars(LoopTest)

NextDownload ==
    \/ Next
    \/ DownloadStart
    \/ DownloadStep

\* The construction of a scraper followed by a call of download().
SpecDownload == Init /\ [][NextDownload]_vars

(***************************************************************************)
(* The parsers called on their own, on a scraper whose attributes are as   *)
(* lines 78-82 leave them.  A caller either calls parse_batch_episodes     *)
(* and parse_episodes one after the other, each call ended before the      *)
(* next, and may give parse_episodes a page again; or runs calls of        *)
(* parse_episodes in threads side by side, as parse_all_in_parallel does.  *)
(***************************************************************************)
ParseModes == {"PARSE_SEQUENTIAL", "PARSE_CONCURRENT"}

InitParse ==
    /\ pc \in ParseModes
    /\ err = ""
    /\ most_recent_exc = ""
    /\ arg_show_id = NoArg
    /\ arg_show_url \in {u \in ShowUrlArgs : Truthy(u)}
    /\ show_id = <<"str", "731">>
    /\ episodes_available \in
           {Unknown} \cup {[known |-> TRUE, set |-> RangeSet(PyInt(n))] :
                               n \in 1..MaxEp}
    /\ all_episodes_acquired = FALSE
    /\ threads = <<>>
    /\ episodes = <<>>
    /\ episode_numbers_collected = {}
    /\ episodes_page_number = 0
    /\ next_page_html = Done
    /\ fetches = <<>>
    /\ site_releases = MaxReleases
    /\ platform = ""
    /\ download_i = 0
    /\ opened = <<>>
    /\ parse_calls = <<>>

\* The call recorded: which parser, and the blocks it was given.
ParseCall(parser, divs) == [parser |-> parser, divs |-> divs]

\* The pages a caller that makes one call after the other may give to
\* parse_episodes again: those it was given so far.
PagesParsed ==
    IF pc = "PARSE_SEQUENTIAL"
    THEN {parse_calls[k].divs :
             k \in {j \in 1..Len(parse_calls) :
                        parse_calls[j].parser = "parse_episodes"}}
    ELSE {}

\* No call is running.
NoCallRunning ==
    \A t \in 1..Len(threads) : threads[t].pc \in {"finished", "raised"}

\* parse_episodes(html) is called, on a new page or on one parsed before.
CallParseEpisodes ==
    /\ pc \in ParseModes
    /\ err = ""
    /\ Len(parse_calls) < MaxPages
    /\ pc = "PARSE_SEQUENTIAL" => NoCallRunning
    /\ \E divs \in PageBodies(site_releases) \cup PagesParsed :
           /\ threads' = Append(threads, NewThread(Len(threads), Html(divs)))
           /\ parse_calls' =
                  Append(parse_calls, ParseCall("parse_episodes", divs))
           /\ site_releases' = IF divs \in PagesParsed THEN site_releases
                                ELSE site_releases - Len(divs)
    /\ UNCHANGED <<pc, err, most_recent_exc, arg_show_id, arg_show_url,
                   show_id, episodes_available, all_episodes_acquired,
                   episodes, episode_numbers_collected,
                   episodes_page_number, next_page_html, fetches,
                   download_vars>>

\* parse_batch_episodes(html) is called and runs to its end; the caller
\* gets the exception it raises.
CallParseBatchEpisodes ==
    /\ pc = "PARSE_SEQUENTIAL"
    /\ err = ""
    /\ Len(parse_calls) < MaxPages
    /\ NoCallRunning
    /\ \E html \in BatchBodies(site_releases) :
           LET r == ParseBatchEpisodes(html, episodes,
                                       episode_numbers_collected)
           IN  /\ episodes' = r.episodes
               /\ episode_numbers_collected' = r.collected
               /\ err' = IF r.raised THEN "RegexFailedToMatch" ELSE err
               /\ parse_calls' =
                      Append(parse_calls,
                             ParseCall("parse_batch_episodes", html))
               /\ site_releases' = site_releases - Len(html)
    /\ UNCHANGED <<pc, most_recent_exc, arg_show_id, arg_show_url, show_id,
                   episodes_available, all_episodes_acquired, threads,
                   episodes_page_number, next_page_html, fetches,
                   download_vars>>

NextParse ==
    \/ CallParseEpisodes
    \/ CallParseBatchEpisodes
    \/ \E t \in 1..Len(threads) : ParseEpisodesIter(t)
    \/ \E t \in 1..Len(threads) : ParseEpisodesAppend(t)
    \/ \E t \in 1..Len(threads) : ParseEpisodesCollect(t)
    \/ \E t \in 1..Len(threads) : ParseEpisodesSetFlag(t)

\* The parsers called on their own.
SpecParse == InitParse /\ [][NextParse]_vars

(***************************************************************************)
(* Properties.                                                             *)
(***************************************************************************)

\* The constructor has returned a scraper.
Returned == pc \in {"DONE", "DOWNLOAD", "DOWNLOADED", "DOWNLOAD_RAISED"}

\* The thread has left parse_episodes, by its end or by an exception.
Ended(th) == th.pc \in {"finished", "raised"}

\* The elements of a sequence, as a set.
Elements(seq) == {seq[k] : k \in 1..Len(seq)}

\* The episode numbers an entry covers: the number of a single episode,
\* every number of a batch range.
Covers(entry) ==
    IF entry.episode_number[1] \in {"str", "list"}
    THEN Elements(entry.episode_number[2])
    ELSE {}

\* The episode numbers in a collected set, as strings or as integers.
NumbersIn(coll) == UNION {Elements(v[2]) : v \in coll}

\* Everything collected is an episode number, as a string or as an
\* integer, and the numbers collected are exactly those of
\* episodes_available.
AllNumbersCollected ==
    /\ episodes_available.known
    /\ \A v \in episode_numbers_collected : v[1] \in {"str", "int"}
    /\ NumbersIn(episode_numbers_collected)
           = NumbersIn(episodes_available.set)

\* The page numbers of the paginated fetches, in the order of the fetches.
IsPaginatedFetch(url) == url[1] = "show" /\ url[2] >= 0

(* C1: once the constructor has returned, and while download() reads the
   collection, no episode number is covered by two entries of
   self.episodes. *)
C1_NoNumberCoveredTwice ==
    Returned =>
        \A i, j \in 1..Len(episodes) :
            i # j => Covers(episodes[i]) \cap Covers(episodes[j]) = {}

(* C2: once the constructor has returned, every thread it started has
   ended, so download() never reads self.episodes beside a running parse
   thread. *)
C2_ThreadsEndedWhenReturned ==
    Returned => \A t \in 1..Len(threads) : Ended(threads[t])

\* The thread is between a membership test that found a number absent and
\* its last write of the shared attributes.
InCriticalSection(th) == th.pc \in {"append", "collect", "set_flag"}

\* The thread found the number of the block in hand absent and has yet to
\* record it.
Adding(th) == th.pc \in {"append", "collect"}

(* C3: no two parse threads are inside the critical section of
   parse_episodes at once, and no two are adding an entry for the same
   episode number at once. *)
C3_MutualExclusion ==
    \A t1, t2 \in 1..Len(threads) :
        t1 # t2 =>
            /\ ~(InCriticalSection(threads[t1])
                 /\ InCriticalSection(threads[t2]))
            /\ ~(/\ Adding(threads[t1])
                 /\ Adding(threads[t2])
                 /\ Head(threads[t1].divs).a = Head(threads[t2].divs).a)

(* C4: when a page given to a parse thread holds a label the
   single-episode regex does not match, the constructor does not return a
   scraper. *)
C4_MalformedPageAbortsRun ==
    (\E t \in 1..Len(threads) : threads[t].pc = "raised") => pc # "DONE"

(* C5: a parse thread that reaches the end of its page when the numbers
   collected, as single episodes or within batch ranges, are the numbers
   1..N of episodes_available, sets all_episodes_acquired: it does not
   end without. *)
C5_CompletionSignalled ==
    [][\A t \in 1..Len(threads) :
           (/\ threads[t].pc = "iter"
            /\ threads[t].divs = <<>>
            /\ AllNumbersCollected)
               => threads'[t].pc # "finished"]_vars

(* C6: all_episodes_acquired never returns to false; a loop test that
   reads it true ends the loop, and from then on no thread is started and
   no page fetched; a thread that was started is never cancelled: it
   keeps its page, only its own steps change it, and it can always take
   its next step until it has ended. *)
C6_CompletionLaw ==
    /\ [][/\ all_episodes_acquired => all_episodes_acquired'
          /\ (pc = "LOOP_TEST" /\ all_episodes_acquired)
                 => /\ pc' \in {"LOOP_TEST", "DONE"}
                    /\ Len(threads') = Len(threads)
                    /\ fetches' = fetches
          /\ pc = "DONE"
                 => /\ pc' = "DONE"
                    /\ Len(threads') = Len(threads)
                    /\ fetches' = fetches
          /\ \A t \in 1..Len(threads) :
                 /\ Len(threads') >= Len(threads)
                 /\ threads'[t].name = threads[t].name
                 /\ Ended(threads[t]) => threads'[t] = threads[t]]_vars
    /\ [](\A t \in 1..Len(threads) :
              ~Ended(threads[t]) => ENABLED ParseEpisodes(t))

\* The loop test read all_episodes_acquired as true: the loop ended with
\* a page in hand that is not "DONE".
C6_Witness ==
    pc = "DONE" /\ all_episodes_acquired /\ next_page_html # Done

(* C7: no entry for a single episode k is appended when a batch range
   already in the collection contains k. *)
C7_BatchNumbersDedupPages ==
    \A i, j \in 1..Len(episodes) :
        (/\ episodes[i].episode_number[1] = "list"
         /\ episodes[j].episode_number[1] = "str")
            => Covers(episodes[j]) \cap Covers(episodes[i]) = {}

\* The unpaginated listing held no release block.
NoStandaloneEpisodes == most_recent_exc = "HorribleSubsException"

\* What _add_episode collects for the entries of a collection.
CollectedFor(eps) ==
    UNION {IF eps[i].episode_number[1] = "list"
           THEN {PyInt(n) : n \in Covers(eps[i])}
           ELSE {eps[i].episode_number} : i \in 1..Len(eps)}

(* C8: when the unpaginated listing holds no release block, the constructor
   goes on with episodes_available unknown and fetches the batch listing,
   once; it fails only if parsing that listing fails; it fetches no page
   and starts no thread; and the collection it returns holds batch entries
   only, at most one for each block of the batch listing, with their
   numbers collected. *)
C8_NoStandaloneEpisodes ==
    NoStandaloneEpisodes =>
        /\ ~episodes_available.known
        /\ pc \in {"BATCH_PHASE", "DONE", "ERROR"}
        /\ threads = <<>>
        /\ \A k \in 1..Len(fetches) : ~IsPaginatedFetch(fetches[k])
        /\ pc # "BATCH_PHASE"
               => /\ fetches[Len(fetches)] = EpisodesUrl("batch")
                  /\ Cardinality({k \in 1..Len(fetches) :
                                      fetches[k] = EpisodesUrl("batch")}) = 1
        /\ pc = "ERROR" => err = "RegexFailedToMatch"
        /\ pc = "DONE"
               => /\ Len(episodes) <= MaxReleases - site_releases
                  /\ \A i \in 1..Len(episodes) :
                         episodes[i].episode_number[1] # "str"
                  /\ episode_numbers_collected = CollectedFor(episodes)

\* The show has the lone batch (1-2) and no standalone episode: the
\* collection returned is its one entry.
C8_Witness ==
    /\ NoStandaloneEpisodes
    /\ pc = "DONE"
    /\ episodes =
           <<[episode_number |-> PyList(<<1, 2>>),
              video_resolution |-> "1080p",
              magnet_url |-> <<"magnet", 1, 2, "1080p">>]>>

\* An identifier of the documented shape: an integer, or a string of
\* digits.
WellFormedId(arg) == arg[1] = "int" \/ (arg[1] = "str" /\ Isdigit(arg))

(* C9: given a well-formed show_id, the check of the arguments raises
   nothing, the show page is not fetched and self.show_id is the
   argument. *)
C9_WellFormedIdAccepted ==
    (WellFormedId(arg_show_id) /\ pc # "INIT") =>
        /\ ~(pc = "ERROR" /\ fetches = <<>>)
        /\ show_id = arg_show_id
        /\ \A k \in 1..Len(fetches) : fetches[k] # ShowPageUrl

\* The arguments the constructor must refuse: neither given, or a
\* show_id given that is neither an integer nor a string of digits.
BadArguments ==
    \/ ~Truthy(arg_show_id) /\ ~Truthy(arg_show_url)
    \/ Truthy(arg_show_id) /\ ~WellFormedId(arg_show_id)

(* C10: with neither argument given, or a show_id of the wrong shape, the
   constructor raises ValueError and has fetched nothing. *)
C10_BadArgumentsRefused ==
    (BadArguments /\ pc # "INIT") =>
        pc = "ERROR" /\ err = "ValueError" /\ fetches = <<>>

\* A show_id of the wrong shape is refused though a show_url came with
\* it.
C10_Witness ==
    /\ arg_show_id = <<"str", "91-days">>
    /\ Truthy(arg_show_url)
    /\ pc = "ERROR"
    /\ err = "ValueError"

\* The positions in the log of the fetches of the batch listing, and of
\* the fetches of a page.
BatchFetches == {k \in 1..Len(fetches) : fetches[k] = <<"batch", -1>>}
PaginatedFetches == {k \in 1..Len(fetches) : IsPaginatedFetch(fetches[k])}

\* The entries parse_batch_episodes made, and the numbers it collected.
IsBatchEntry(entry) == entry.episode_number[1] # "str"
BatchEntries(eps) == SelectSeq(eps, IsBatchEntry)
BatchCollected(coll) == {v \in coll : v[1] # "str"}

\* The constructor is past line 88.
PastBatchPhase == pc \in {"PAGINATION_PHASE", "LOOP_TEST", "DONE"}

(* C11: the batch listing is fetched at most once, and exactly once in a
   run that gets past the batch phase; every fetch of a page and every
   start of a thread comes after it; when the first page is about to be
   fetched the collection holds the batch entries only, with their
   numbers collected, and from then on the batch entries and the numbers
   collected for them never change. *)
C11_BatchOnceBeforePagination ==
    /\ [](/\ Cardinality(BatchFetches) <= 1
          /\ PastBatchPhase => Cardinality(BatchFetches) = 1
          /\ (threads # <<>> \/ PaginatedFetches # {})
                 => /\ pc \in {"LOOP_TEST", "DONE"}
                    /\ \A p \in PaginatedFetches :
                           \E b \in BatchFetches : b < p
          /\ pc = "PAGINATION_PHASE"
                 => /\ BatchEntries(episodes) = episodes
                    /\ episode_numbers_collected = CollectedFor(episodes))
    /\ [][PastBatchPhase
              => /\ BatchEntries(episodes') = BatchEntries(episodes)
                 /\ BatchCollected(episode_numbers_collected')
                        = BatchCollected(episode_numbers_collected)]_vars

\* A thread parses a page beside an entry the batch phase made.
C11_Witness ==
    /\ threads # <<>>
    /\ BatchEntries(episodes) # <<>>
    /\ BatchEntries(episodes) # episodes

\* The magnet urls of the entries, in the order of the collection.
MagnetUrls(eps) == [k \in 1..Len(eps) |-> eps[k].magnet_url]

\* download() has ended, by its return or by an exception.
DownloadEnded == pc \in {"DOWNLOADED", "DOWNLOAD_RAISED"}

(* C12: when download() has ended on a collection no thread was adding
   to, every entry's magnet url was handed to the OS exactly once, in the
   order of the collection, whether or not an open failed on the way. *)
C12_EveryEntryOpened ==
    (DownloadEnded /\ threads = <<>>) => opened = MagnetUrls(episodes)

(* C13: the pagination phase always ends: the constructor reaches DONE,
   and raises nothing on the way; the loop is left only with the body
   "DONE" in hand or with all_episodes_acquired true; and the body "DONE"
   is never given to a thread. *)
C13_PaginationEnds ==
    /\ (pc = "PAGINATION_PHASE") ~> (pc = "DONE")
    /\ [][/\ pc \in {"PAGINATION_PHASE", "LOOP_TEST"} => pc' # "ERROR"
          /\ (pc = "LOOP_TEST" /\ pc' = "DONE")
                 => (next_page_html = Done \/ all_episodes_acquired)
          /\ Len(threads') > Len(threads) => next_page_html # Done]_vars

\* The loop ended on the body "DONE", after pages that were given to
\* threads and held no malformed label.
C13_Witness ==
    /\ pc = "DONE"
    /\ next_page_html = Done
    /\ ~all_episodes_acquired
    /\ threads # <<>>
    /\ \A t \in 1..Len(threads) : threads[t].pc # "raised"

\* The fetches of a page, in the order they were made.
PagesFetched == SelectSeq(fetches, IsPaginatedFetch)

(* C14: episodes_page_number starts at 0, never decreases and grows by one
   at a time; the k-th fetch of a page (k = 0, 1, 2, ...) asks for page k,
   and episodes_page_number is the page last asked for; the t-th thread
   started holds the body of page t - 1, a page already asked for. *)
C14_PaginationCursor ==
    /\ [](/\ \A k \in 1..Len(PagesFetched) : PagesFetched[k][2] = k - 1
          /\ episodes_page_number =
                 IF PagesFetched = <<>> THEN 0 ELSE Len(PagesFetched) - 1
          /\ \A t \in 1..Len(threads) :
                 /\ threads[t].name = t - 1
                 /\ threads[t].name <= episodes_page_number)
    /\ [][/\ episodes_page_number' \in
                 {episodes_page_number, episodes_page_number + 1}
          /\ Len(PagesFetched') > Len(PagesFetched)
                 => /\ Len(PagesFetched') = Len(PagesFetched) + 1
                    /\ episodes_page_number' =
                           IF pc = "PAGINATION_PHASE"
                           THEN episodes_page_number
                           ELSE episodes_page_number + 1]_vars

\* Pages 0, 1 and 2 were asked for, and pages 0 and 1 given to threads.
C14_Witness ==
    /\ Len(PagesFetched) = 3
    /\ Len(threads) = 2
    /\ episodes_page_number = 2

\* A page holding two releases of episode n, in document order.
TwoReleases(n, first_res, second_res) ==
    <<[fmt |-> "single", a |-> n, b |-> 0, res |-> first_res],
      [fmt |-> "single", a |-> n, b |-> 0, res |-> second_res]>>

\* parse_episodes was called once, on these blocks, by a caller that made
\* no other call, and the call has ended.
ParsedAlone(divs) ==
    /\ pc = "PARSE_SEQUENTIAL"
    /\ parse_calls = <<ParseCall("parse_episodes", divs)>>
    /\ NoCallRunning

(* C15: of a page parsed alone that holds episode n at 480p and at 1080p,
   in either document order, the one entry retained is the 1080p
   release. *)
C15_HighestResolutionRetained ==
    \A n \in 1..MaxEp :
        \A divs \in {TwoReleases(n, "480p", "1080p"),
                      TwoReleases(n, "1080p", "480p")} :
            ParsedAlone(divs) =>
                /\ Len(episodes) = 1
                /\ episodes[1].episode_number = PyStr(n)
                /\ episodes[1].video_resolution = "1080p"

\* parse_batch_episodes was called once, on an empty collection, and
\* returned.
BatchParsedAlone ==
    /\ pc = "PARSE_SEQUENTIAL"
    /\ Len(parse_calls) = 1
    /\ parse_calls[1].parser = "parse_batch_episodes"
    /\ err = ""

\* The blocks of the listing with the range of block k, and the entries
\* made from a block with that range.
SameRange(html, k) ==
    {j \in 1..Len(html) : html[j].a = html[k].a /\ html[j].b = html[k].b}
MadeFromRange(eps, label) ==
    {i \in 1..Len(eps) : /\ eps[i].magnet_url[2] = label.a
                         /\ eps[i].magnet_url[3] = label.b}

(* C16: after parse_batch_episodes has parsed a listing, no two entries
   have the same episode_number, and for every range of the listing there
   is exactly one entry, made from the last block in document order that
   has the range. *)
C16_OneEntryPerRange ==
    BatchParsedAlone =>
        LET html == parse_calls[1].divs
        IN  /\ \A i, j \in 1..Len(episodes) :
                   i # j => episodes[i].episode_number
                                # episodes[j].episode_number
            /\ \A k \in 1..Len(html) :
                   LET last == CHOOSE j \in SameRange(html, k) :
                                   \A m \in SameRange(html, k) : m <= j
                       made == MadeFromRange(episodes, html[k])
                   IN  /\ Cardinality(made) = 1
                       /\ \A i \in made :
                              /\ episodes[i].magnet_url
                                     = MagnetUrl(html[last])
                              /\ episodes[i].video_resolution
                                     = html[last].res

\* The episode numbers the labels of a page mention.
NumbersMentioned(divs) ==
    {divs[k].a : k \in {j \in 1..Len(divs) : divs[j].fmt = "single"}}

\* Two calls of parse_episodes or more were run side by side, on pages
\* that mention pairwise disjoint episode numbers, and all have ended.
DisjointTasksEnded ==
    /\ pc = "PARSE_CONCURRENT"
    /\ Len(parse_calls) >= 2
    /\ NoCallRunning
    /\ \A i, j \in 1..Len(parse_calls) :
           i # j => NumbersMentioned(parse_calls[i].divs)
                        \cap NumbersMentioned(parse_calls[j].divs) = {}

(* C17: when calls of parse_episodes on pages that mention pairwise
   disjoint episode numbers have run side by side and ended, the set of
   entries and the set of numbers collected are those the same calls
   leave when run one after another, in whatever order. *)
C17_DisjointTasksCommute ==
    DisjointTasksEnded =>
        \A order \in Permutations(1..Len(parse_calls)) :
            LET pages == [k \in 1..Len(parse_calls) |->
                             parse_calls[order[k]].divs]
                r == ParseOneAfterAnother(pages, 1, <<>>, {})
            IN  /\ Elements(episodes) = Elements(r.episodes)
                /\ episode_numbers_collected = r.collected

\* Two calls on disjoint pages have ended, and the call started second
\* appended its entry first.
C17_Witness ==
    /\ DisjointTasksEnded
    /\ Len(episodes) = 2
    /\ episodes[1].magnet_url = MagnetUrl(parse_calls[2].divs[1])
    /\ episodes[2].magnet_url = MagnetUrl(parse_calls[1].divs[1])

\* The numbers first..last, in order.
Consecutive(first, last) == [k \in 1..(last - first + 1) |-> first + k - 1]

(* C18: every entry has one of the two forms, a single episode number or
   a non-empty list of numbers, never neither; and every entry the batch
   parser made comes from a label with first <= last and carries the
   list first, ..., last, of length last - first + 1. *)
C18_RangeWellFormed ==
    \A i \in 1..Len(episodes) :
        LET entry == episodes[i]
            first == entry.magnet_url[2]
            last == entry.magnet_url[3]
        IN  /\ entry.episode_number[1] \in {"str", "list"}
            /\ entry.episode_number[2] # <<>>
            /\ IsBatchEntry(entry)
                   => /\ first <= last
                      /\ entry.episode_number[2] = Consecutive(first, last)
                      /\ Len(entry.episode_number[2]) = last - first + 1

\* The last call made is a call of parse_episodes on the page the call
\* before it parsed, made after that call had ended.
SamePageAgain ==
    /\ pc = "PARSE_SEQUENTIAL"
    /\ Len(parse_calls) >= 2
    /\ parse_calls[Len(parse_calls)].parser = "parse_episodes"
    /\ parse_calls[Len(parse_calls)] = parse_calls[Len(parse_calls) - 1]

(* C19: while parse_episodes parses again, on its own, the page its
   previous call parsed, no step up to its end appends an entry, changes
   an entry or changes the set of numbers collected. *)
C19_SecondParseChangesNothing ==
    [][(SamePageAgain /\ ~NoCallRunning)
           => /\ episodes' = episodes
              /\ episode_numbers_collected' = episode_numbers_collected]_vars

\* A page with a release was parsed twice, and the second call has ended.
C19_Witness ==
    /\ SamePageAgain
    /\ NoCallRunning
    /\ Len(threads) = 2
    /\ NumbersMentioned(parse_calls[Len(parse_calls)].divs) # {}
    /\ episodes # <<>>

(* C20: no step takes a number out of episode_numbers_collected, and no
   step removes, moves or changes an entry of self.episodes: every step
   leaves the entries where they are and at most appends to them. *)
C20_CollectionOnlyGrows ==
    [][/\ episode_numbers_collected \subseteq episode_numbers_collected'
       /\ Len(episodes') >= Len(episodes)
       /\ \A i \in 1..Len(episodes) : episodes'[i] = episodes[i]]_vars

\* The batch parser and a parse thread have both appended and collected.
C20_Witness ==
    /\ Len(episodes) >= 2
    /\ BatchEntries(episodes) # <<>>
    /\ BatchEntries(episodes) # episodes
    /\ BatchCollected(episode_numbers_collected) # {}
    /\ BatchCollected(episode_numbers_collected)
           # episode_numbers_collected

====
